---- MODULE Spec2Model ----
(***************************************************************************)
(* Interactive terminal subsystem of sandbox-server-ui.                    *)
(*                                                                         *)
(*   client  : Terminal.tsx (component state, key handlers, callbacks)     *)
(*             TerminalWebSocket (connect / send / disconnect)             *)
(*   server  : TerminalWebSocketHandler (registry, exec relay)             *)
(*             SandboxService.executeCommandStreaming                      *)
(*                                                                         *)
(* Text is a sequence of one-character strings, so that trim, startsWith,  *)
(* substring, split and join are computed character by character.          *)
(***************************************************************************)
EXTENDS Integers, Sequences, FiniteSets, TLC

VARIABLES
    \* ---- Terminal.tsx component state (useState / useRef) ----
    input,          \* input buffer
    output,         \* OutputLine[]
    isExecuting,
    isConnected,
    history,        \* string[]
    historyIndex,   \* -1 = not browsing
    currentDir,     \* prompt symbol
    wsRef,          \* wsRef.current : wrapper id or Null
    effectWs,       \* the `ws` captured by the live effect's cleanup, or Null
    \* ---- TerminalWebSocket instances and browser sockets ----
    wsOf,           \* wrapper -> its `this.ws` (socket id or Null)
    timers,         \* wrapper -> number of pending setTimeout callbacks
    readyState,     \* socket -> "NONE" | "CONNECTING" | "OPEN" | "CLOSING" | "CLOSED"
    owner,          \* socket -> wrapper whose handlers are attached to it
    toServer,       \* socket -> frames in flight client -> server
    toClient,       \* socket -> messages in flight server -> client
    \* ---- server: TerminalWebSocketHandler / SandboxService ----
    sessions,       \* the registry: ids of registered WebSocketSessions
    srvOpen,        \* socket -> "none" | "open" | "closed"  (session.isOpen())
    exec,           \* socket -> state of the execution run by its handler thread
    cb,             \* lifecycle callback threads (close / transport error)
    \* ---- server: InteractiveTerminalService ----
    activeSessions, \* ids of the sessions in the activeSessions map
    interactive,    \* session id -> its execution thread and its execution
    \* ---- observation ----
    ev,             \* name of the last operation performed
    stats           \* observed effects: banners appended, submits accepted,
                    \* kinds of the chunks the capability delivered, in order

uiVars   == <<input, output, isExecuting, isConnected, history, historyIndex, currentDir>>
compVars == <<wsRef, effectWs>>
sockVars == <<wsOf, timers, readyState, owner>>
wireVars == <<toServer, toClient>>
srvVars  == <<sessions, srvOpen, exec, cb>>
itsVars  == <<activeSessions, interactive>>
vars     == <<uiVars, compVars, sockVars, wireVars, srvVars, itsVars, ev, stats>>

(***************************************************************************)
(* Bounds of the model.                                                    *)
(***************************************************************************)
MaxSockets  == 2    \* sockets (channels) created in one behaviour
MaxSubmits  == 2    \* submits accepted in a terminal session (Spec)
MaxEntered  == 3    \* submits accepted under the key handlers (SpecKeys, SpecCd)
MaxChunks   == 2    \* stdout/stderr chunks the capability delivers
MaxTimers   == 2    \* deferred closes pending at once on one wrapper
MaxCalls    == 2    \* lifecycle callbacks the container runs concurrently
MaxFrames   == 2    \* frames in flight from the client
MaxStarted  == 3    \* interactive sessions started

Null == 0

Wrappers == 1..MaxSockets
Sockets  == 1..MaxSockets
CbCalls  == 1..MaxCalls
SessionIds == 1..MaxStarted

(***************************************************************************)
(* Text helpers (JavaScript String methods, on character sequences).       *)
(***************************************************************************)
IsSpace(c) == c \in {" ", "\t"}

RECURSIVE TrimStart(_)
TrimStart(s) == IF s # <<>> /\ IsSpace(Head(s)) THEN TrimStart(Tail(s)) ELSE s

RECURSIVE TrimEnd(_)
TrimEnd(s) ==
    IF s # <<>> /\ IsSpace(s[Len(s)]) THEN TrimEnd(SubSeq(s, 1, Len(s) - 1)) ELSE s

\* String.prototype.trim
Trim(s) == TrimEnd(TrimStart(s))

\* String.prototype.startsWith
StartsWith(s, p) == Len(s) >= Len(p) /\ SubSeq(s, 1, Len(p)) = p

\* String.prototype.substring(n) (0-based n)
Substring(s, n) == SubSeq(s, n + 1, Len(s))

\* String.prototype.slice(0, n)
Slice0(s, n) == SubSeq(s, 1, IF Len(s) < n THEN Len(s) ELSE n)

\* String.prototype.split('/') : a non-empty list of (possibly empty) pieces
RECURSIVE SplitSlash(_)
SplitSlash(s) ==
    IF \A i \in 1..Len(s) : s[i] # "/" THEN <<s>>
    ELSE LET i == CHOOSE k \in 1..Len(s) :
                      s[k] = "/" /\ \A j \in 1..(k - 1) : s[j] # "/"
         IN  <<SubSeq(s, 1, i - 1)>> \o SplitSlash(SubSeq(s, i + 1, Len(s)))

\* Array.prototype.filter(p => p) : drops the empty strings
NonEmptyParts(parts) == LET Keep(p) == p # <<>> IN SelectSeq(parts, Keep)

\* Array.prototype.join('/')
RECURSIVE JoinSlash(_)
JoinSlash(parts) ==
    IF parts = <<>> THEN <<>>
    ELSE IF Len(parts) = 1 THEN parts[1]
    ELSE parts[1] \o <<"/">> \o JoinSlash(Tail(parts))

\* template literal `${n}` of a small integer
NumText(n) ==
    LET d == <<"0", "1", "2", "3", "4", "5", "6", "7", "8", "9">>
        m == IF n < 0 THEN -n ELSE n
        digits == IF m < 10 THEN <<d[m + 1]>> ELSE <<d[(m \div 10) + 1], d[(m % 10) + 1]>>
    IN  IF n < 0 THEN <<"-">> \o digits ELSE digits

(***************************************************************************)
(* Literals of the source.                                                 *)
(***************************************************************************)
\* the sandboxId prop: some id longer than 8 characters
SandboxId   == <<"s", "b", "x", "-", "0", "0", "0", "1", "-", "f", "f">>
TxtHome     == <<"~">>
TxtDollarHome == <<"$", "H", "O", "M", "E">>
TxtDotDot   == <<".", ".">>
TxtCdSpace  == <<"c", "d", " ">>
TxtClear    == <<"c", "l", "e", "a", "r">>
TxtCls      == <<"c", "l", "s">>
TxtCtrlC    == <<"^", "C">>
TxtPromptSep == <<" ", "$", " ">>
TxtExitCode == <<"E", "x", "i", "t", " ", "c", "o", "d", "e", ":", " ">>
TxtErrorPfx == <<"E", "r", "r", "o", "r", ":", " ">>
TxtConnecting == <<"C", "o", "n", "n", "e", "c", "t", "i", "n", "g", " ", "t", "o", " ",
                   "s", "a", "n", "d", "b", "o", "x", ":", " ">>
                 \o Slice0(SandboxId, 8) \o <<".", ".", ".">>
TxtBanner   == <<"C", "o", "n", "n", "e", "c", "t", "e", "d", " ", "t", "o", " ",
                 "s", "a", "n", "d", "b", "o", "x", ":", " ">>
                 \o Slice0(SandboxId, 8) \o <<".", ".", ".">>
\* 'Type commands to execute. Use (arrows) for history.', shortened
TxtHelp     == <<"T", "y", "p", "e", " ", "c", "o", "m", "m", "a", "n", "d", "s">>
\* the non-ASCII message of ws.onerror, transliterated
TxtWsError  == <<"W", "e", "b", "S", "o", "c", "k", "e", "t", " ", "e", "r", "r">>

Line(kind, text) == [type |-> kind, text |-> text]

(***************************************************************************)
(* TerminalWebSocket.send (src/unnamed/part_004).                          *)
(***************************************************************************)
\* a field that the JSON object of a frame does not have
Absent == <<"null">>

ExecFrame(command) == [type |-> "exec", command |-> command]

\* mutant: the frame is written whatever the state of the socket
send_AnyState(w, command) ==
    IF w # Null /\ wsOf[w] # Null
    THEN toServer' = [toServer EXCEPT ![wsOf[w]] = Append(@, ExecFrame(command))]
    ELSE UNCHANGED toServer

\* wsRef.current?.send(cmd): the frame is written only to an OPEN socket
send(w, command) ==
    IF w # Null /\ wsOf[w] # Null /\ readyState[wsOf[w]] = "OPEN"
    THEN toServer' = [toServer EXCEPT ![wsOf[w]] = Append(@, ExecFrame(command))]
    ELSE UNCHANGED toServer

InputFrame(data) == [type |-> "input", data |-> data]

\* sendInput(input): the same guard as send
sendInput(w, data) ==
    IF w # Null /\ wsOf[w] # Null /\ readyState[wsOf[w]] = "OPEN"
    THEN toServer' = [toServer EXCEPT ![wsOf[w]] = Append(@, InputFrame(data))]
    ELSE UNCHANGED toServer

(***************************************************************************)
(* Terminal.tsx: callbacks handed to the TerminalWebSocket.                *)
(* Each one states its effect on the whole component state.                *)
(***************************************************************************)
\* mutant: the new line is put in front
onStdout_Prepend(data) ==
    /\ output' = <<Line("stdout", data)>> \o output
    /\ UNCHANGED <<input, isExecuting, isConnected, history, historyIndex, currentDir>>

onStdout(data) ==
    /\ output' = Append(output, Line("stdout", data))
    /\ UNCHANGED <<input, isExecuting, isConnected, history, historyIndex, currentDir>>

\* mutant: a stderr chunk leaves the Executing state alone
onStderr_KeepsExecuting(data) ==
    /\ output' = Append(output, Line("stderr", data))
    /\ UNCHANGED <<input, isExecuting, isConnected, history, historyIndex, currentDir>>

onStderr(data) ==
    /\ output' = Append(output, Line("stderr", data))
    /\ isExecuting' = FALSE
    /\ UNCHANGED <<input, isConnected, history, historyIndex, currentDir>>

onExit(code) ==
    /\ output' = IF code # 0
                 THEN Append(output, Line("info", TxtExitCode \o NumText(code)))
                 ELSE output
    /\ isExecuting' = FALSE
    /\ UNCHANGED <<input, isConnected, history, historyIndex, currentDir>>

onError(error) ==
    /\ output' = Append(output, Line("stderr", TxtErrorPfx \o error))
    /\ isExecuting' = FALSE
    /\ UNCHANGED <<input, isConnected, history, historyIndex, currentDir>>

onConnected ==
    /\ isConnected' = TRUE
    /\ output' = output \o <<Line("info", TxtBanner), Line("info", TxtHelp), Line("info", <<>>)>>
    /\ UNCHANGED <<input, isExecuting, history, historyIndex, currentDir>>

(***************************************************************************)
(* Terminal.tsx: executeCommand (Enter).                                   *)
(***************************************************************************)
\* the prompt after `cd <dir>` (lines 107-122)
CdPrompt(prev, dir) ==
    IF dir = TxtHome \/ dir = TxtDollarHome THEN TxtHome
    ELSE IF StartsWith(dir, <<"/">>) THEN dir
    ELSE IF dir = TxtDotDot THEN
        LET parts  == NonEmptyParts(SplitSlash(prev))
            popped == IF parts = <<>> THEN parts ELSE SubSeq(parts, 1, Len(parts) - 1)
        IN  IF Len(popped) > 0 THEN <<"/">> \o JoinSlash(popped) ELSE TxtHome
    ELSE IF prev = TxtHome THEN TxtHome \o <<"/">> \o dir
    ELSE prev \o <<"/">> \o dir

\* mutant: the earlier occurrence is kept
PushHistory_NoFilter(prev, cmd) == Append(prev, cmd)

\* setHistory(prev => [...prev.filter(h => h !== cmd), cmd])
PushHistory(prev, cmd) ==
    LET Other(h) == h # cmd IN Append(SelectSeq(prev, Other), cmd)

\* mutant: the buffer is not trimmed before the test
Rejected_NoTrim == input = <<>> \/ isExecuting \/ ~isConnected

\* mutant: a running command does not block the next one
Rejected_WhileExecuting == Trim(input) = <<>> \/ ~isConnected

\* the guard of line 80
Rejected == Trim(input) = <<>> \/ isExecuting \/ ~isConnected

executeCommand ==
    LET cmd == Trim(input) IN
    IF Rejected
    THEN UNCHANGED <<uiVars, toServer>>
    ELSE
        /\ history' = PushHistory(history, cmd)
        /\ historyIndex' = -1
        /\ input' = <<>>
        /\ UNCHANGED isConnected
        /\ IF cmd = TxtClear \/ cmd = TxtCls
           THEN /\ output' = <<>>
                /\ UNCHANGED <<isExecuting, currentDir, toServer>>
           ELSE /\ output' = Append(output, Line("input", currentDir \o TxtPromptSep \o cmd))
                /\ isExecuting' = TRUE
                /\ currentDir' = IF StartsWith(cmd, TxtCdSpace)
                                 THEN CdPrompt(currentDir, Trim(Substring(cmd, 3)))
                                 ELSE currentDir
                /\ send(wsRef, cmd)

(***************************************************************************)
(* Terminal.tsx: handleKeyDown, the other keys.                            *)
(***************************************************************************)
\* history[history.length - 1 - i] || ''
HistoryAt(i) ==
    LET k == Len(history) - i IN
    IF k \in 1..Len(history) THEN history[k] ELSE <<>>

\* mutant: the cursor is not stopped at the oldest entry
ArrowUp_Unbounded ==
    IF Len(history) > 0
    THEN /\ historyIndex' = historyIndex + 1
         /\ input' = HistoryAt(historyIndex + 1)
         /\ UNCHANGED <<output, isExecuting, isConnected, history, currentDir>>
    ELSE UNCHANGED uiVars

ArrowUp ==
    IF Len(history) > 0
    THEN LET newIndex == IF historyIndex < Len(history) - 1
                         THEN historyIndex + 1 ELSE historyIndex
         IN  /\ historyIndex' = newIndex
             /\ input' = HistoryAt(newIndex)
             /\ UNCHANGED <<output, isExecuting, isConnected, history, currentDir>>
    ELSE UNCHANGED uiVars

\* mutant: Down steps the cursor below "not browsing"
ArrowDown_NoFloor ==
    /\ historyIndex' = historyIndex - 1
    /\ input' = <<>>
    /\ UNCHANGED <<output, isExecuting, isConnected, history, currentDir>>

ArrowDown ==
    IF historyIndex > 0
    THEN /\ historyIndex' = historyIndex - 1
         /\ input' = HistoryAt(historyIndex - 1)
         /\ UNCHANGED <<output, isExecuting, isConnected, history, currentDir>>
    ELSE IF historyIndex = 0
    THEN /\ historyIndex' = -1
         /\ input' = <<>>
         /\ UNCHANGED <<output, isExecuting, isConnected, history, currentDir>>
    ELSE UNCHANGED uiVars

\* mutant: the interrupt echoes ^C and leaves the terminal Executing
CtrlC_StaysExecuting ==
    IF isExecuting
    THEN /\ output' = Append(output, Line("stderr", TxtCtrlC))
         /\ UNCHANGED <<input, isExecuting, isConnected, history, historyIndex, currentDir>>
    ELSE /\ input' = <<>>
         /\ UNCHANGED <<output, isExecuting, isConnected, history, historyIndex, currentDir>>

CtrlC ==
    IF isExecuting
    THEN /\ output' = Append(output, Line("stderr", TxtCtrlC))
         /\ isExecuting' = FALSE
         /\ UNCHANGED <<input, isConnected, history, historyIndex, currentDir>>
    ELSE /\ input' = <<>>
         /\ UNCHANGED <<output, isExecuting, isConnected, history, historyIndex, currentDir>>

CtrlL ==
    /\ output' = <<>>
    /\ UNCHANGED <<input, isExecuting, isConnected, history, historyIndex, currentDir>>

\* onChange: setInput(e.target.value)
onChange(text) ==
    /\ input' = text
    /\ UNCHANGED <<output, isExecuting, isConnected, history, historyIndex, currentDir>>

(***************************************************************************)
(* TerminalWebSocket.connect / disconnect and the deferred close           *)
(* (src/unnamed/part_004).  They are written as transformers of the socket *)
(* state S = [wsOf, timers, readyState, owner] because connect() calls     *)
(* disconnect() and then goes on.                                          *)
(***************************************************************************)
SockState == [wsOf |-> wsOf, timers |-> timers, readyState |-> readyState, owner |-> owner]

SetSock(S) ==
    /\ wsOf' = S.wsOf
    /\ timers' = S.timers
    /\ readyState' = S.readyState
    /\ owner' = S.owner

\* WebSocket.close() of the browser: an OPEN socket starts the closing handshake
close(S, s) ==
    IF S.readyState[s] = "OPEN"
    THEN [S EXCEPT !.readyState[s] = "CLOSING"]
    ELSE S

disconnect(S, w) ==
    IF S.wsOf[w] = Null THEN S
    ELSE LET state == S.readyState[S.wsOf[w]] IN
         IF state = "CONNECTING"
         THEN [S EXCEPT !.timers[w] = @ + 1]                   \* setTimeout(..., 100); return
         ELSE IF state = "OPEN"
         THEN [close(S, S.wsOf[w]) EXCEPT !.wsOf[w] = Null]
         ELSE [S EXCEPT !.wsOf[w] = Null]

\* the callback of the setTimeout in disconnect()
deferredClose(S, w) ==
    LET T == IF S.wsOf[w] # Null /\ S.readyState[S.wsOf[w]] = "OPEN"
             THEN close(S, S.wsOf[w]) ELSE S
    IN  [T EXCEPT !.wsOf[w] = Null, !.timers[w] = @ - 1]

FreeSockets == {s \in Sockets : readyState[s] = "NONE"}
NewSocket   == CHOOSE s \in FreeSockets : \A t \in FreeSockets : s <= t

\* connect(): `new WebSocket(url)` is socket s
connect(S, w, s) ==
    LET D == IF S.wsOf[w] # Null THEN disconnect(S, w) ELSE S
    IN  [D EXCEPT !.wsOf[w] = s, !.readyState[s] = "CONNECTING", !.owner[s] = w]

(***************************************************************************)
(* Terminal.tsx: the connection effect (useEffect, lines 30-65).           *)
(***************************************************************************)
FreeWrappers == {w \in Wrappers : \A s \in Sockets : owner[s] # w}
NewWrapper   == CHOOSE w \in FreeWrappers : \A v \in FreeWrappers : w <= v

\* first run of the effect: new TerminalWebSocket, connect(), wsRef.current = ws
Mount ==
    /\ effectWs = Null /\ wsRef = Null
    /\ FreeSockets # {} /\ FreeWrappers # {}
    /\ SetSock(connect(SockState, NewWrapper, NewSocket))
    /\ wsRef' = NewWrapper
    /\ effectWs' = NewWrapper
    /\ UNCHANGED <<uiVars, wireVars, srvVars, stats>>

\* the host mounts the component twice in quick succession: right after the first
\* run of the effect, before any event of its socket is dispatched, it runs the
\* cleanup (ws.disconnect()) and then the effect body with a new TerminalWebSocket
Remount ==
    /\ effectWs # Null
    /\ wsOf[effectWs] # Null /\ readyState[wsOf[effectWs]] = "CONNECTING"
    /\ FreeSockets # {} /\ FreeWrappers # {}
    /\ SetSock(connect(disconnect(SockState, effectWs), NewWrapper, NewSocket))
    /\ wsRef' = NewWrapper
    /\ effectWs' = NewWrapper
    /\ UNCHANGED <<uiVars, wireVars, srvVars, stats>>

\* the 100 ms timer of a deferred disconnect fires
TimerFires(w) ==
    /\ timers[w] > 0
    /\ SetSock(deferredClose(SockState, w))
    /\ UNCHANGED <<uiVars, compVars, wireVars, srvVars, stats>>

(***************************************************************************)
(* Server: TerminalWebSocketHandler (src/unnamed/part_006) and             *)
(* SandboxService.executeCommandStreaming (src/unnamed/part_011).          *)
(***************************************************************************)
Msg(type, data, code) == [type |-> type, data |-> data, exitCode |-> code]

TxtCapError == <<"E", ":", " ", "v">>      \* error.getName() + ": " + error.getValue()
TxtThrown   == <<"b", "o", "o", "m">>      \* e.getMessage()

\* the text of the n-th chunk the capability delivers
ChunkText(n) == NumText(n)

\* safeSendMessage: nothing is written unless session.isOpen()
safeSendMessage(q, s, msg) ==
    IF srvOpen[s] = "open" THEN [q EXCEPT ![s] = Append(@, msg)] ELSE q

\* ConcurrentHashMap.put / remove on the registry
RegistryPut(m, id)    == m \cup {id}
\* mutant: the whole registry is emptied
RegistryRemove_Clear(m, id) == {}

RegistryRemove(m, id) == m \ {id}

\* exec[s]: the run of the channel's handler thread.  `exitCode` is the
\* AtomicInteger of executeCommandStreaming, `status` the exit status with which
\* the command ends in the sandbox, which the capability reports on completion.
Idle        == [state |-> "idle", exitCode |-> 0, status |-> 0]
Run(status) == [state |-> "running", exitCode |-> 0, status |-> status]
Running     == Run(0)

\* afterConnectionEstablished: sessions.put, then the `connected` message
register(s) ==
    /\ srvOpen[s] = "none"
    /\ sessions' = RegistryPut(sessions, s)
    /\ srvOpen' = [srvOpen EXCEPT ![s] = "open"]
    /\ toClient' = [toClient EXCEPT ![s] = Append(@, Msg("connected", <<>>, 0))]

\* the container accepts the handshake of socket s
afterConnectionEstablished(s) ==
    /\ readyState[s] = "CONNECTING"
    /\ register(s)
    /\ UNCHANGED <<uiVars, compVars, sockVars, toServer, exec, cb, stats>>

\* the container has seen the close of the channel (close frame or lost peer)
afterConnectionClosed(s) ==
    /\ srvOpen[s] = "open" /\ readyState[s] \in {"CLOSING", "CLOSED"}
    /\ sessions' = RegistryRemove(sessions, s)
    /\ srvOpen' = [srvOpen EXCEPT ![s] = "closed"]
    /\ UNCHANGED <<uiVars, compVars, sockVars, wireVars, exec, cb, stats>>

\* mutant: the transport error is only logged
handleTransportError_OnlyLogs(s) ==
    /\ srvOpen[s] = "open" /\ s \in sessions
    /\ UNCHANGED <<uiVars, compVars, sockVars, wireVars, srvVars, stats>>

\* handleTransportError: the container reports an error of the transport of an
\* established session; the handler logs and deregisters, the session is as open
\* as it was
handleTransportError(s) ==
    /\ srvOpen[s] = "open" /\ s \in sessions
    /\ sessions' = RegistryRemove(sessions, s)
    /\ UNCHANGED <<uiVars, compVars, sockVars, wireVars, srvOpen, exec, cb, stats>>

\* handleTextMessage for an exec frame; executeCommandStreaming either starts the
\* run (ok) of a command that will end with `status`, or getSandbox throws and
\* the catch block of executeCommandStreaming reports it
handleTextMessage(s, ok, status) ==
    /\ srvOpen[s] = "open" /\ exec[s].state = "idle"
    /\ toServer[s] # <<>>
    /\ Head(toServer[s]).type = "exec" /\ Head(toServer[s]).command # Absent
    /\ toServer' = [toServer EXCEPT ![s] = Tail(@)]
    /\ IF ok
       THEN /\ exec' = [exec EXCEPT ![s] = Run(status)]
            /\ UNCHANGED toClient
       ELSE /\ toClient' = safeSendMessage(
                               safeSendMessage(toClient, s,
                                   Msg("stderr", TxtErrorPfx \o TxtThrown, 0)),
                               s, Msg("exit", <<>>, -1))
            /\ UNCHANGED exec
    /\ UNCHANGED <<uiVars, compVars, sockVars, sessions, srvOpen, cb, stats>>

\* inbound frames that are not well-formed: a payload that is not JSON, and an
\* exec frame without `command` (json.get("command") is null)
NotJsonFrame   == [type |-> "not-json", command |-> Absent]
ExecNoCommand  == [type |-> "exec", command |-> Absent]
PingFrame      == [type |-> "ping", command |-> Absent]

Malformed(frame) == frame = NotJsonFrame \/ frame = ExecNoCommand

\* e.getMessage() of the exception that readTree / asText() throws
TxtNotJson   == <<"b", "a", "d", " ", "j", "s", "o", "n">>
TxtNoCommand == <<"n", "u", "l", "l", " ", "c", "m", "d">>

\* mutant: the catch block only logs
handleTextMessageCatch_Silent(s) ==
    /\ srvOpen[s] = "open" /\ exec[s].state = "idle"
    /\ toServer[s] # <<>> /\ Malformed(Head(toServer[s]))
    /\ toServer' = [toServer EXCEPT ![s] = Tail(@)]
    /\ UNCHANGED <<uiVars, compVars, sockVars, toClient, srvVars, stats>>

\* handleTextMessage for a malformed frame: readTree or asText() throws and the
\* catch block sends an `error` message with the exception's message
handleTextMessageCatch(s) ==
    /\ srvOpen[s] = "open" /\ exec[s].state = "idle"
    /\ toServer[s] # <<>> /\ Malformed(Head(toServer[s]))
    /\ toServer' = [toServer EXCEPT ![s] = Tail(@)]
    /\ toClient' = safeSendMessage(toClient, s,
                       Msg("error",
                           IF Head(toServer[s]) = NotJsonFrame THEN TxtNotJson ELSE TxtNoCommand,
                           0))
    /\ UNCHANGED <<uiVars, compVars, sockVars, srvVars, stats>>

\* handleTextMessage for a ping frame: `pong`
handleTextMessagePing(s) ==
    /\ srvOpen[s] = "open" /\ exec[s].state = "idle"
    /\ toServer[s] # <<>> /\ Head(toServer[s]) = PingFrame
    /\ toServer' = [toServer EXCEPT ![s] = Tail(@)]
    /\ toClient' = safeSendMessage(toClient, s, Msg("pong", <<>>, 0))
    /\ UNCHANGED <<uiVars, compVars, sockVars, srvVars, stats>>

\* handleTextMessage for a frame of any other type (`input`): neither branch is
\* taken
handleTextMessageOther(s) ==
    /\ srvOpen[s] = "open" /\ exec[s].state = "idle"
    /\ toServer[s] # <<>> /\ Head(toServer[s]).type = "input"
    /\ toServer' = [toServer EXCEPT ![s] = Tail(@)]
    /\ UNCHANGED <<uiVars, compVars, sockVars, toClient, srvVars, stats>>

\* handlers.onStdout / handlers.onStderr: the capability delivers its next chunk
CapChunk(s, kind) ==
    /\ exec[s].state = "running"
    /\ Len(stats.delivered) < MaxChunks
    /\ toClient' = safeSendMessage(toClient, s,
                                   Msg(kind, ChunkText(Len(stats.delivered) + 1), 0))
    /\ stats' = [stats EXCEPT !.delivered = Append(@, kind)]
    /\ UNCHANGED <<uiVars, compVars, sockVars, toServer, srvVars>>

\* mutant: the failure only sets the exit code
CapError_Silent(s) ==
    /\ exec[s].state = "running" /\ exec[s].exitCode = 0
    /\ exec' = [exec EXCEPT ![s].exitCode = 1]
    /\ UNCHANGED <<uiVars, compVars, sockVars, wireVars, sessions, srvOpen, cb, stats>>

\* handlers.onError: exitCode.set(1); onStderr.accept(name + ": " + value)
CapError(s) ==
    /\ exec[s].state = "running" /\ exec[s].exitCode = 0
    /\ exec' = [exec EXCEPT ![s].exitCode = 1]
    /\ toClient' = safeSendMessage(toClient, s, Msg("stderr", TxtCapError, 0))
    /\ UNCHANGED <<uiVars, compVars, sockVars, toServer, sessions, srvOpen, cb, stats>>

\* handlers.onExecutionComplete: onComplete.accept(exitCode.get()); run() returns
CapComplete(s) ==
    /\ exec[s].state = "running"
    /\ toClient' = safeSendMessage(toClient, s, Msg("exit", <<>>, exec[s].exitCode))
    /\ exec' = [exec EXCEPT ![s] = Idle]
    /\ UNCHANGED <<uiVars, compVars, sockVars, toServer, sessions, srvOpen, cb, stats>>

(***************************************************************************)
(* Browser socket events, dispatched to the handlers connect() installed.  *)
(***************************************************************************)
\* ws.onopen
onopen(s) ==
    /\ readyState[s] = "CONNECTING" /\ srvOpen[s] = "open"
    /\ readyState' = [readyState EXCEPT ![s] = "OPEN"]
    /\ onConnected
    /\ stats' = [stats EXCEPT !.banners = @ + 1]
    /\ UNCHANGED <<compVars, wsOf, timers, owner, wireVars, srvVars>>

\* ws.onmessage: JSON.parse and the switch on data.type
onmessage(s) ==
    /\ readyState[s] = "OPEN" /\ toClient[s] # <<>>
    /\ LET m == Head(toClient[s]) IN
       CASE m.type = "stdout" -> onStdout(m.data)
         [] m.type = "stderr" -> onStderr(m.data)
         [] m.type = "exit"   -> onExit(m.exitCode)
         [] m.type = "error"  -> onError(m.data)
         [] OTHER             -> UNCHANGED uiVars
    /\ toClient' = [toClient EXCEPT ![s] = Tail(@)]
    /\ UNCHANGED <<compVars, sockVars, toServer, srvVars, stats>>

\* ws.onerror followed by the close of the socket (failed handshake, lost peer)
onerror(s) ==
    /\ readyState[s] \in {"CONNECTING", "OPEN"}
    /\ readyState' = [readyState EXCEPT ![s] = "CLOSED"]
    /\ onError(TxtWsError)
    /\ UNCHANGED <<compVars, wsOf, timers, owner, wireVars, srvVars, stats>>

\* ws.onclose at the end of the closing handshake: the handler only logs
onclose(s) ==
    /\ readyState[s] = "CLOSING"
    /\ readyState' = [readyState EXCEPT ![s] = "CLOSED"]
    /\ UNCHANGED <<uiVars, compVars, wsOf, timers, owner, wireVars, srvVars, stats>>

(***************************************************************************)
(* Keyboard.                                                               *)
(***************************************************************************)
TxtLs  == <<"l", "s">>

\* what the user types in the terminal session
TermTexts == {TxtLs}

Type(texts) ==
    /\ \E t \in texts : onChange(t)
    /\ UNCHANGED <<compVars, sockVars, wireVars, srvVars, stats>>

KeyEnter(max) ==
    /\ stats.submits < max
    /\ executeCommand
    /\ stats' = IF Rejected THEN stats ELSE [stats EXCEPT !.submits = @ + 1]
    /\ UNCHANGED <<compVars, sockVars, toClient, srvVars>>

KeyUp ==
    /\ ArrowUp
    /\ UNCHANGED <<compVars, sockVars, wireVars, srvVars, stats>>

KeyDown ==
    /\ ArrowDown
    /\ UNCHANGED <<compVars, sockVars, wireVars, srvVars, stats>>

KeyCtrlC ==
    /\ CtrlC
    /\ UNCHANGED <<compVars, sockVars, wireVars, srvVars, stats>>

KeyCtrlL ==
    /\ CtrlL
    /\ UNCHANGED <<compVars, sockVars, wireVars, srvVars, stats>>

(***************************************************************************)
(* The state after construction, and the terminal session.                 *)
(***************************************************************************)
\* a session id no startInteractiveSession call has drawn yet
NotStarted == [pc |-> "none", run |-> "none"]

Init ==
    /\ input = <<>>
    /\ output = <<Line("info", TxtConnecting)>>
    /\ isExecuting = FALSE
    /\ isConnected = FALSE
    /\ history = <<>>
    /\ historyIndex = -1
    /\ currentDir = TxtHome
    /\ wsRef = Null
    /\ effectWs = Null
    /\ wsOf = [w \in Wrappers |-> Null]
    /\ timers = [w \in Wrappers |-> 0]
    /\ readyState = [s \in Sockets |-> "NONE"]
    /\ owner = [s \in Sockets |-> Null]
    /\ toServer = [s \in Sockets |-> <<>>]
    /\ toClient = [s \in Sockets |-> <<>>]
    /\ sessions = {}
    /\ srvOpen = [s \in Sockets |-> "none"]
    /\ exec = [s \in Sockets |-> Idle]
    /\ cb = [t \in CbCalls |-> [pc |-> "idle", kind |-> "none", sid |-> Null, took |-> FALSE]]
    /\ activeSessions = {}
    /\ interactive = [id \in SessionIds |-> NotStarted]
    /\ ev = "Init"
    /\ stats = [banners |-> 0, submits |-> 0, delivered |-> <<>>]

\* Quiet(A): A as a step that leaves the observation of operations alone;
\* Did(name, A): A as a step observed under its name
Quiet(A)     == A /\ UNCHANGED <<ev, itsVars>>
Did(name, A) == A /\ ev' = name /\ UNCHANGED itsVars

(***************************************************************************)
(* Spec: one terminal session over the channel its mount opens: submits,   *)
(* interrupts, the bridge relaying the capability's events, the loss of    *)
(* the channel.                                                            *)
(***************************************************************************)
Next ==
    \/ Quiet(Mount)
    \/ \E s \in Sockets : Quiet(afterConnectionEstablished(s))
    \/ \E s \in Sockets : Quiet(onopen(s))
    \/ \E s \in Sockets : Quiet(onmessage(s))
    \/ \E s \in Sockets, ok \in BOOLEAN : Quiet(handleTextMessage(s, ok, 0))
    \/ \E s \in Sockets, kind \in {"stdout", "stderr"} : Quiet(CapChunk(s, kind))
    \/ \E s \in Sockets : Quiet(CapComplete(s))
    \/ \E s \in Sockets : Quiet(onerror(s))
    \/ \E s \in Sockets : Quiet(afterConnectionClosed(s))
    \/ Quiet(Type(TermTexts))
    \/ Quiet(KeyEnter(MaxSubmits))
    \/ Quiet(KeyCtrlC)

Spec == Init /\ [][Next]_vars

(***************************************************************************)
(* SpecLive: the terminal session under fair scheduling.  The container    *)
(* and the browser dispatch every event that is due, and the capability    *)
(* ends every run it is given; the user and transport failures are under   *)
(* no obligation.                                                          *)
(***************************************************************************)
Fairness ==
    /\ \A s \in Sockets : WF_vars(Quiet(afterConnectionEstablished(s)))
    /\ \A s \in Sockets : WF_vars(Quiet(onopen(s)))
    /\ \A s \in Sockets : WF_vars(Quiet(onmessage(s)))
    /\ \A s \in Sockets : WF_vars(\E ok \in BOOLEAN : Quiet(handleTextMessage(s, ok, 0)))
    /\ \A s \in Sockets : WF_vars(Quiet(CapComplete(s)))

SpecLive == Init /\ [][Next]_vars /\ Fairness

(***************************************************************************)
(* SpecConn: the connection life cycle under repeated runs of the effect.  *)
(***************************************************************************)
NextConn ==
    \/ Quiet(Mount)
    \/ Quiet(Remount)
    \/ \E w \in Wrappers : Quiet(TimerFires(w))
    \/ \E s \in Sockets : Quiet(afterConnectionEstablished(s))
    \/ \E s \in Sockets : Quiet(onopen(s))
    \/ \E s \in Sockets : Quiet(onmessage(s))
    \/ \E s \in Sockets : Quiet(onerror(s))
    \/ \E s \in Sockets : Quiet(onclose(s))
    \/ \E s \in Sockets : Quiet(afterConnectionClosed(s))

SpecConn == Init /\ [][NextConn]_vars

(***************************************************************************)
(* SpecKeys: the key handlers of a terminal that connects; a run ends by   *)
(* Ctrl-C here, the bridge is not scheduled.                               *)
(***************************************************************************)
TxtA == <<"a">>
TxtB == <<"b">>

KeyTexts == {TxtA, <<" ", "a", "\t">>, TxtB, <<" ", "\t">>, TxtClear}

\* the terminal connects
Connects ==
    \/ Did("Mount", Mount)
    \/ \E s \in Sockets : Did("afterConnectionEstablished", afterConnectionEstablished(s))
    \/ \E s \in Sockets : Did("onopen", onopen(s))

\* the bridge completes each run it is given
Completes ==
    \/ \E s \in Sockets : Did("onmessage", onmessage(s))
    \/ \E s \in Sockets : Did("handleTextMessage", handleTextMessage(s, TRUE, 0))
    \/ \E s \in Sockets : Did("CapComplete", CapComplete(s))

NextKeys ==
    \/ Connects
    \/ Did("Type", Type(KeyTexts))
    \/ Did("Enter", KeyEnter(MaxEntered))
    \/ Did("ArrowUp", KeyUp)
    \/ Did("ArrowDown", KeyDown)
    \/ Did("CtrlC", KeyCtrlC)
    \/ Did("CtrlL", KeyCtrlL)

SpecKeys == Init /\ [][NextKeys]_vars

(***************************************************************************)
(* SpecCd: `cd` submits and the prompt.                                    *)
(***************************************************************************)
TxtCdTmp  == TxtCdSpace \o <<"/", "t", "m", "p">>
TxtCdSub  == TxtCdSpace \o <<"s", "u", "b">>
TxtCdUp   == TxtCdSpace \o TxtDotDot
TxtCdHome == TxtCdSpace \o TxtHome
TxtCdEnv  == TxtCdSpace \o <<" ">> \o TxtDollarHome

CdTexts == {TxtCdTmp, TxtCdSub, TxtCdUp, TxtCdHome, TxtCdEnv}

NextCd ==
    \/ Connects
    \/ Completes
    \/ Did("Type", Type(CdTexts))
    \/ Did("Enter", KeyEnter(MaxEntered))

SpecCd == Init /\ [][NextCd]_vars

(***************************************************************************)
(* SpecWrapper: TerminalWebSocket as a class, its owner calling connect()  *)
(* and disconnect() in any order on one instance.                          *)
(***************************************************************************)
TheWrapper == 1

CallConnect(w) ==
    /\ FreeSockets # {}
    /\ timers[w] < MaxTimers
    /\ SetSock(connect(SockState, w, NewSocket))
    /\ UNCHANGED <<uiVars, compVars, wireVars, srvVars, stats>>

CallDisconnect(w) ==
    /\ timers[w] < MaxTimers
    /\ SetSock(disconnect(SockState, w))
    /\ UNCHANGED <<uiVars, compVars, wireVars, srvVars, stats>>

NextWrapper ==
    \/ Did("connect", CallConnect(TheWrapper))
    \/ Did("disconnect", CallDisconnect(TheWrapper))
    \/ Did("TimerFires", TimerFires(TheWrapper))
    \/ \E s \in Sockets : Did("afterConnectionEstablished", afterConnectionEstablished(s))
    \/ \E s \in Sockets : Did("onopen", onopen(s))
    \/ \E s \in Sockets : Did("onmessage", onmessage(s))
    \/ \E s \in Sockets : Did("onerror", onerror(s))
    \/ \E s \in Sockets : Did("onclose", onclose(s))
    \/ \E s \in Sockets : Did("afterConnectionClosed", afterConnectionClosed(s))

SpecWrapper == Init /\ [][NextWrapper]_vars

(***************************************************************************)
(* SpecSend: the owner also calls send() and sendInput() at any time, in   *)
(* every state of the wrapper's socket.                                    *)
(***************************************************************************)
TxtY == <<"y">>

RECURSIVE FramesUpTo(_)
FramesUpTo(n) == IF n = 0 THEN 0 ELSE Len(toServer[n]) + FramesUpTo(n - 1)

\* frames in flight from the client
InFlight == FramesUpTo(MaxSockets)

CallSend(w) ==
    /\ InFlight < MaxFrames
    /\ send(w, TxtLs)
    /\ UNCHANGED <<uiVars, compVars, sockVars, toClient, srvVars, stats>>

CallSendInput(w) ==
    /\ InFlight < MaxFrames
    /\ sendInput(w, TxtY)
    /\ UNCHANGED <<uiVars, compVars, sockVars, toClient, srvVars, stats>>

NextSend ==
    \/ Did("connect", CallConnect(TheWrapper))
    \/ Did("disconnect", CallDisconnect(TheWrapper))
    \/ Did("TimerFires", TimerFires(TheWrapper))
    \/ \E s \in Sockets : Did("afterConnectionEstablished", afterConnectionEstablished(s))
    \/ \E s \in Sockets : Did("onopen", onopen(s))
    \/ \E s \in Sockets : Did("onclose", onclose(s))
    \/ Did("send", CallSend(TheWrapper))
    \/ Did("sendInput", CallSendInput(TheWrapper))

SpecSend == Init /\ [][NextSend]_vars

(***************************************************************************)
(* SpecBridge: the bridge relaying runs that end with any exit status,     *)
(* fail, or cannot be started, over a channel that can break.              *)
(***************************************************************************)
ExitCodes == {0, 2}

NextBridge ==
    \/ Connects
    \/ Did("Type", Type(TermTexts))
    \/ Did("Enter", KeyEnter(MaxSubmits))
    \/ \E s \in Sockets : Did("onmessage", onmessage(s))
    \/ \E s \in Sockets, status \in ExitCodes :
           Did("handleTextMessage", handleTextMessage(s, TRUE, status))
    \/ \E s \in Sockets : Did("getSandboxThrows", handleTextMessage(s, FALSE, 0))
    \/ \E s \in Sockets : Did("CapChunk", CapChunk(s, "stdout"))
    \/ \E s \in Sockets : Did("CapError", CapError(s))
    \/ \E s \in Sockets : Did("CapComplete", CapComplete(s))
    \/ \E s \in Sockets : Did("handleTransportError", handleTransportError(s))
    \/ \E s \in Sockets : Did("onerror", onerror(s))
    \/ \E s \in Sockets : Did("afterConnectionClosed", afterConnectionClosed(s))

SpecBridge == Init /\ [][NextBridge]_vars

(***************************************************************************)
(* SpecRegistry: the session registry under the container's threads.       *)
(* Each call of afterConnectionClosed / handleTransportError is a thread   *)
(* that enters, executes sessions.remove(session.getId()) as one atomic    *)
(* step of the ConcurrentHashMap, and returns.                             *)
(***************************************************************************)
CbKinds == {"afterConnectionClosed", "handleTransportError"}

\* a channel opens at the server
ChannelOpens(s) ==
    /\ register(s)
    /\ UNCHANGED <<uiVars, compVars, sockVars, toServer, exec, cb, ev, stats, itsVars>>

\* the container starts a lifecycle callback for an established session
CbEnter(t, kind, s) ==
    /\ cb[t].pc = "idle"
    /\ srvOpen[s] # "none"
    /\ cb' = [cb EXCEPT ![t] = [pc |-> "entered", kind |-> kind, sid |-> s, took |-> FALSE]]
    /\ srvOpen' = IF kind = "afterConnectionClosed"
                  THEN [srvOpen EXCEPT ![s] = "closed"] ELSE srvOpen
    /\ UNCHANGED <<uiVars, compVars, sockVars, wireVars, sessions, exec, ev, stats, itsVars>>

\* sessions.remove(session.getId()); `took` is what remove returned (non-null)
CbRemove(t) ==
    /\ cb[t].pc = "entered"
    /\ sessions' = RegistryRemove(sessions, cb[t].sid)
    /\ cb' = [cb EXCEPT ![t].pc = "removed", ![t].took = (cb[t].sid \in sessions)]
    /\ UNCHANGED <<uiVars, compVars, sockVars, wireVars, srvOpen, exec, ev, stats, itsVars>>

\* the callback returns
CbReturn(t) ==
    /\ cb[t].pc = "removed"
    /\ cb' = [cb EXCEPT ![t].pc = "done"]
    /\ UNCHANGED <<uiVars, compVars, sockVars, wireVars, sessions, srvOpen, exec, ev, stats, itsVars>>

NextRegistry ==
    \/ \E s \in Sockets : ChannelOpens(s)
    \/ \E t \in CbCalls, kind \in CbKinds, s \in Sockets : CbEnter(t, kind, s)
    \/ \E t \in CbCalls : CbRemove(t)
    \/ \E t \in CbCalls : CbReturn(t)

SpecRegistry == Init /\ [][NextRegistry]_vars

(***************************************************************************)
(* SpecThreads: the threads that write to a channel.  safeSendMessage      *)
(* takes no lock: a thread that finds session.isOpen() is inside           *)
(* session.sendMessage until it leaves it.  The container runs the         *)
(* handlers of one session one at a time; the handler of an exec frame     *)
(* stays inside sandbox.commands().run(request) until the run is over (the *)
(* caller of run() reads the results of the callbacks right after it, see  *)
(* executeCommand), and the capability invokes the callbacks of the run    *)
(* one after the other from a thread of its own.                           *)
(***************************************************************************)
InboundKinds  == {"connected", "pong", "error", "exec"}
CallbackKinds == {"stdout", "stderr", "exit"}

ThreadIdle       == [pc |-> "idle", kind |-> "none", sid |-> Null, took |-> FALSE]
Sending(kind, s) == [pc |-> "sending", kind |-> kind, sid |-> s, took |-> FALSE]

\* mutant: run() returns at once and the callbacks come later
BlockedInRun_Returns(s) == [pc |-> "idle", kind |-> "none", sid |-> Null, took |-> FALSE]

\* the handler thread of an exec frame, inside sandbox.commands().run(request)
BlockedInRun(s) == [pc |-> "run", kind |-> "exec", sid |-> s, took |-> FALSE]

\* the pool hands out its first idle thread
Free(t) == cb[t].pc = "idle" /\ \A u \in CbCalls : u < t => cb[u].pc # "idle"

\* the container threads inside a handler of session s
Dispatching(s) ==
    {t \in CbCalls : cb[t].sid = s /\ cb[t].kind \in InboundKinds /\ cb[t].pc # "idle"}

\* the capability's thread inside a callback of the run of session s
InCallback(s) ==
    {t \in CbCalls : cb[t].sid = s /\ cb[t].kind \in CallbackKinds /\ cb[t].pc # "idle"}

RECURSIVE WrittenUpTo(_)
WrittenUpTo(n) == IF n = 0 THEN 0 ELSE Len(toClient[n]) + WrittenUpTo(n - 1)

\* room for one more message of a handler or callback in this model
Room(s) == WrittenUpTo(MaxSockets) - Cardinality(sessions) < MaxChunks

\* afterConnectionEstablished on thread t: sessions.put, then into the send of
\* `connected`
ThEstablished(t, s) ==
    /\ Free(t) /\ srvOpen[s] = "none"
    /\ sessions' = RegistryPut(sessions, s)
    /\ srvOpen' = [srvOpen EXCEPT ![s] = "open"]
    /\ cb' = [cb EXCEPT ![t] = Sending("connected", s)]
    /\ UNCHANGED <<uiVars, compVars, sockVars, wireVars, exec, ev, stats, itsVars>>

\* handleTextMessage on thread t for a frame that is answered at once: `pong`
\* for a ping (and, from the same place of the same thread, `error` for a frame
\* whose handling throws)
ThReply(t, s, kind) ==
    /\ Free(t) /\ srvOpen[s] = "open"
    /\ Dispatching(s) = {} /\ Room(s)
    /\ cb' = [cb EXCEPT ![t] = Sending(kind, s)]
    /\ UNCHANGED <<uiVars, compVars, sockVars, wireVars, sessions, srvOpen, exec, ev, stats, itsVars>>

\* handleTextMessage on thread t for an exec frame: into run()
ThExec(t, s) ==
    /\ Free(t) /\ srvOpen[s] = "open"
    /\ Dispatching(s) = {} /\ exec[s].state = "idle"
    /\ exec' = [exec EXCEPT ![s] = Running]
    /\ cb' = [cb EXCEPT ![t] = BlockedInRun(s)]
    /\ UNCHANGED <<uiVars, compVars, sockVars, wireVars, sessions, srvOpen, ev, stats, itsVars>>

\* the capability invokes a callback of the run of s on thread u: safeSendMessage
\* finds the session open and enters session.sendMessage
ThCallback(u, s, kind) ==
    /\ Free(u) /\ srvOpen[s] = "open"
    /\ exec[s].state = "running" /\ InCallback(s) = {} /\ Room(s)
    /\ cb' = [cb EXCEPT ![u] = Sending(kind, s)]
    /\ UNCHANGED <<uiVars, compVars, sockVars, wireVars, sessions, srvOpen, exec, ev, stats, itsVars>>

\* thread t leaves session.sendMessage: the frame is on the channel.  After the
\* `exit` of a run, run() returns in the handler thread.
ThSent(t) ==
    /\ cb[t].pc = "sending"
    /\ LET s == cb[t].sid
           last == cb[t].kind = "exit" IN
       /\ toClient' = [toClient EXCEPT ![s] = Append(@, Msg(cb[t].kind, <<>>, 0))]
       /\ exec' = IF last THEN [exec EXCEPT ![s] = Idle] ELSE exec
       /\ cb' = [u \in CbCalls |->
                    IF u = t \/ (last /\ cb[u].pc = "run" /\ cb[u].sid = s)
                    THEN ThreadIdle ELSE cb[u]]
    /\ UNCHANGED <<uiVars, compVars, sockVars, toServer, sessions, srvOpen, ev, stats, itsVars>>

NextThreads ==
    \/ \E t \in CbCalls, s \in Sockets : ThEstablished(t, s)
    \/ \E t \in CbCalls, s \in Sockets : ThReply(t, s, "pong")
    \/ \E t \in CbCalls, s \in Sockets : ThExec(t, s)
    \/ \E t \in CbCalls, s \in Sockets, kind \in CallbackKinds : ThCallback(t, s, kind)
    \/ \E t \in CbCalls : ThSent(t)

SpecThreads == Init /\ [][NextThreads]_vars

(***************************************************************************)
(* SpecFrames: a peer that writes any frame to the channel, well-formed or *)
(* not, and the handler's answer to each.                                  *)
(***************************************************************************)
PeerFrames == {ExecFrame(TxtLs), InputFrame(TxtY), PingFrame, NotJsonFrame, ExecNoCommand}

\* the peer writes a frame to its open socket; frames in flight and answers
\* written (the `connected` messages aside) stay within MaxFrames
PeerSends(s, frame) ==
    /\ readyState[s] = "OPEN"
    /\ InFlight + WrittenUpTo(MaxSockets) - Cardinality(sessions) < MaxFrames
    /\ toServer' = [toServer EXCEPT ![s] = Append(@, frame)]
    /\ UNCHANGED <<uiVars, compVars, sockVars, toClient, srvVars, stats>>

NextFrames ==
    \/ Connects
    \/ \E s \in Sockets, frame \in PeerFrames : Did("PeerSends", PeerSends(s, frame))
    \/ \E s \in Sockets : Did("handleTextMessage", handleTextMessage(s, TRUE, 0))
    \/ \E s \in Sockets : Did("handleTextMessageCatch", handleTextMessageCatch(s))
    \/ \E s \in Sockets : Did("handleTextMessagePing", handleTextMessagePing(s))
    \/ \E s \in Sockets : Did("handleTextMessageOther", handleTextMessageOther(s))
    \/ \E s \in Sockets : Did("CapComplete", CapComplete(s))

SpecFrames == Init /\ [][NextFrames]_vars

(***************************************************************************)
(* SpecInteractive: InteractiveTerminalService.  startInteractiveSession   *)
(* draws a fresh id and starts a thread; the thread calls run(request),    *)
(* and puts the id into activeSessions when run() has returned.  The       *)
(* handlers given to run() remove the id when the execution completes or   *)
(* reports an error; closeSession removes it on request.  The source does  *)
(* not fix when run() returns relative to the events of the execution, so  *)
(* both orders are behaviours of the model.                                *)
(***************************************************************************)
Started == {id \in SessionIds : interactive[id].pc # "none"}

\* UUID.randomUUID(): an id no session has had
FreshId == Cardinality(Started) + 1

RunEnded(id) == interactive[id].run \in {"completed", "failed"}

startInteractiveSession(id) ==
    /\ Cardinality(Started) < MaxStarted /\ id = FreshId
    /\ interactive' = [interactive EXCEPT ![id] = [pc |-> "started", run |-> "none"]]
    /\ UNCHANGED <<uiVars, compVars, sockVars, wireVars, srvVars, activeSessions, ev, stats>>

\* the execution thread calls sandbox.commands().run(request)
ThreadRun(id) ==
    /\ interactive[id].pc = "started"
    /\ interactive' = [interactive EXCEPT ![id] = [pc |-> "inRun", run |-> "running"]]
    /\ UNCHANGED <<uiVars, compVars, sockVars, wireVars, srvVars, activeSessions, ev, stats>>

\* run() has returned: activeSessions.put(sessionId, sessionInfo)
ThreadPut(id) ==
    /\ interactive[id].pc = "inRun"
    /\ activeSessions' = activeSessions \cup {id}
    /\ interactive' = [interactive EXCEPT ![id].pc = "done"]
    /\ UNCHANGED <<uiVars, compVars, sockVars, wireVars, srvVars, ev, stats>>

\* run() throws before the execution exists: the catch block of the thread
ThreadCatch(id) ==
    /\ interactive[id] = [pc |-> "inRun", run |-> "running"]
    /\ activeSessions' = activeSessions \ {id}
    /\ interactive' = [interactive EXCEPT ![id] = [pc |-> "done", run |-> "failed"]]
    /\ UNCHANGED <<uiVars, compVars, sockVars, wireVars, srvVars, ev, stats>>

onExecutionComplete(id) ==
    /\ interactive[id].run = "running"
    /\ activeSessions' = activeSessions \ {id}
    /\ interactive' = [interactive EXCEPT ![id].run = "completed"]
    /\ UNCHANGED <<uiVars, compVars, sockVars, wireVars, srvVars, ev, stats>>

onExecutionError(id) ==
    /\ interactive[id].run = "running"
    /\ activeSessions' = activeSessions \ {id}
    /\ interactive' = [interactive EXCEPT ![id].run = "failed"]
    /\ UNCHANGED <<uiVars, compVars, sockVars, wireVars, srvVars, ev, stats>>

closeSession(id) ==
    /\ id \in Started
    /\ activeSessions' = activeSessions \ {id}
    /\ UNCHANGED <<uiVars, compVars, sockVars, wireVars, srvVars, interactive, ev, stats>>

NextInteractive ==
    \/ \E id \in SessionIds : startInteractiveSession(id)
    \/ \E id \in SessionIds : ThreadRun(id)
    \/ \E id \in SessionIds : ThreadPut(id)
    \/ \E id \in SessionIds : ThreadCatch(id)
    \/ \E id \in SessionIds : onExecutionComplete(id)
    \/ \E id \in SessionIds : onExecutionError(id)
    \/ \E id \in SessionIds : closeSession(id)

SpecInteractive == Init /\ [][NextInteractive]_vars

(***************************************************************************)
(* Properties.                                                             *)
(***************************************************************************)
progVars == <<uiVars, compVars, sockVars, wireVars, srvVars>>

Live(s) == readyState[s] \in {"CONNECTING", "OPEN"}

\* ---- C1 ----------------------------------------------------------------
ChunkNos == 1..Len(stats.delivered)

IsChunkLine(l) ==
    /\ l.type \in {"stdout", "stderr"}
    /\ \E n \in ChunkNos : l.text = ChunkText(n)

ChunkNo(l) == CHOOSE n \in ChunkNos : l.text = ChunkText(n)

\* the output lines that show chunks of the capability, as the terminal holds them
OutputChunks == SelectSeq(output, IsChunkLine)

\* C1: the stdout/stderr lines of the terminal that show chunks of the capability
\* appear in the order the capability delivered the chunks, each once and each
\* with the kind (stdout or stderr) it was delivered with.
C1_OutputInDeliveryOrder ==
    /\ \A i, j \in 1..Len(OutputChunks) :
           i < j => ChunkNo(OutputChunks[i]) < ChunkNo(OutputChunks[j])
    /\ \A i \in 1..Len(OutputChunks) :
           OutputChunks[i].type = stats.delivered[ChunkNo(OutputChunks[i])]

\* two chunks of different kinds are on the screen
C1_Witness ==
    /\ Len(OutputChunks) >= 2
    /\ OutputChunks[1].type # OutputChunks[2].type

\* ---- C2 ----------------------------------------------------------------
\* C2: the connection banner is appended at most once in the logical session,
\* also when the component is mounted twice in quick succession.
C2_BannerOnce == stats.banners <= 1

\* ---- C3 ----------------------------------------------------------------
\* C3: at most one physical socket of the logical session is live (Connecting or
\* Open) at any time.
C3_AtMostOneLive == Cardinality({s \in Sockets : Live(s)}) <= 1

\* ---- C4 ----------------------------------------------------------------
Referenced(s) == \E w \in Wrappers : wsOf[w] = s
Replaced(s)   == \E t \in Sockets : t > s /\ readyState[t] # "NONE" /\ owner[t] = owner[s]

\* C4: a socket that a later connect() of the same wrapper replaced is not left
\* live and unreferenced once no deferred close is pending any more.
C4_NoLeakedSocket ==
    \A s \in Sockets :
        (Live(s) /\ Replaced(s) /\ ~Referenced(s)) => timers[owner[s]] > 0

\* ---- C5 ----------------------------------------------------------------
Unfinished(s) == Len(toServer[s]) + (IF exec[s].state = "running" THEN 1 ELSE 0)

\* C5 (as claimed): no exec is sent on a channel while an exec sent earlier on it
\* has not finished at the server.
C5_NoOverlapAtServer == \A s \in Sockets : Unfinished(s) <= 1

ExecSent == \E s \in Sockets : Len(toServer'[s]) > Len(toServer[s])

\* C5 (amended): an exec message is sent only by a step taken while the terminal
\* itself is Connected and not Executing.
C5_ExecOnlyFromConnected == [][ExecSent => (isConnected /\ ~isExecuting)]_vars

\* the terminal is Executing and its exec is at the server
C5_Witness == isExecuting /\ \E s \in Sockets : exec[s].state = "running"

\* ---- C6 ----------------------------------------------------------------
Blank(text) == \A i \in 1..Len(text) : IsSpace(text[i])

\* C6: Enter with an empty or whitespace-only buffer, or while the terminal is
\* Executing or not connected, changes nothing: output, history, cursor, input
\* buffer, prompt, state, and no message is sent.
C6_SubmitNoOp ==
    [][(ev' = "Enter" /\ (Blank(input) \/ isExecuting \/ ~isConnected))
          => UNCHANGED <<progVars, stats>>]_vars

\* Enter was pressed on a whitespace-only buffer of a connected, idle terminal
C6_Witness ==
    /\ ev = "Enter" /\ isConnected /\ ~isExecuting
    /\ input # <<>> /\ Blank(input)

\* ---- C7 ----------------------------------------------------------------
NoDuplicates(h) == \A i, j \in 1..Len(h) : h[i] = h[j] => i = j

Without(h, cmd) == LET Keep(x) == x # cmd IN SelectSeq(h, Keep)

Accepted == ~Blank(input) /\ isConnected /\ ~isExecuting

\* C7: the history never holds a string twice; an accepted submit makes its
\* command the last entry and keeps the order of the other entries.
C7_HistoryMostRecentWins ==
    [][/\ NoDuplicates(history')
       /\ (ev' = "Enter" /\ Accepted) =>
              /\ history' # <<>>
              /\ history'[Len(history')] = Trim(input)
              /\ Without(history', Trim(input)) = Without(history, Trim(input))]_vars

\* a command was submitted again: the earlier entry moved to the end
C7_Witness ==
    /\ ev = "Enter"
    /\ stats.submits = 3
    /\ history = <<TxtB, TxtA>>

\* ---- C8 ----------------------------------------------------------------
\* the k-th most recent entry of h
Recent(h, k) == h[Len(h) - k + 1]

\* C8: Up moves the cursor one entry toward the oldest and stays there, showing
\* the entry under the cursor; Down moves one entry toward the newest and, from
\* the newest, resets the cursor to -1 with an empty buffer; neither changes the
\* history, and the cursor stays within -1 .. n-1.
C8_HistoryNavigation ==
    [][/\ (ev' = "ArrowUp" /\ Len(history) >= 1) =>
              /\ history' = history
              /\ historyIndex' = (IF historyIndex + 1 <= Len(history) - 1
                                  THEN historyIndex + 1 ELSE Len(history) - 1)
              /\ input' = Recent(history, historyIndex' + 1)
       /\ (ev' = "ArrowDown" /\ historyIndex > 0) =>
              /\ history' = history
              /\ historyIndex' = historyIndex - 1
              /\ input' = Recent(history, historyIndex)
       /\ (ev' = "ArrowDown" /\ historyIndex = 0) =>
              /\ history' = history
              /\ historyIndex' = -1
              /\ input' = <<>>
       /\ historyIndex' \in -1..(Len(history') - 1)]_vars

\* Up has reached the oldest of three entries
C8_Witness ==
    /\ ev = "ArrowUp"
    /\ Len(history) = 3 /\ historyIndex = 2
    /\ input = history[1]

\* ---- C9 ----------------------------------------------------------------
\* the segments of a prompt after its root (`~` or `/`)
Segments(prompt) ==
    LET parts == NonEmptyParts(SplitSlash(prompt)) IN
    IF parts # <<>> /\ parts[1] = TxtHome THEN Tail(parts) ELSE parts

HomeRooted(prompt) == StartsWith(prompt, TxtHome)

\* the rules of the claim
CdRule(prompt, arg) ==
    IF arg = TxtHome \/ arg = TxtDollarHome THEN TxtHome
    ELSE IF StartsWith(arg, <<"/">>) THEN arg
    ELSE IF arg = TxtDotDot THEN
        LET segs == Segments(prompt)
            rest == IF segs = <<>> THEN segs ELSE SubSeq(segs, 1, Len(segs) - 1)
        IN  IF rest = <<>> THEN TxtHome
            ELSE IF HomeRooted(prompt) THEN TxtHome \o <<"/">> \o JoinSlash(rest)
            ELSE <<"/">> \o JoinSlash(rest)
    ELSE prompt \o <<"/">> \o arg

\* C9: every accepted `cd <arg>` submit leaves the prompt the rules give.
C9_PromptFollowsCdRules ==
    [][(ev' = "Enter" /\ Accepted /\ StartsWith(Trim(input), TxtCdSpace))
          => currentDir' = CdRule(currentDir, Trim(Substring(Trim(input), 3)))]_vars

\* ---- C10 ---------------------------------------------------------------
PastRemove(t)  == cb[t].pc \in {"removed", "done"}
Takers(s)      == {t \in CbCalls : cb[t].sid = s /\ cb[t].took}
Deregistered(s) == \E t \in CbCalls : cb[t].sid = s /\ PastRemove(t)

\* C10: of the lifecycle callbacks racing for one session id exactly one removes
\* the entry, the others find it absent and return normally, and the entries of
\* the other sessions stay.
C10_DeregisterOnce ==
    /\ \A s \in Sockets : Cardinality(Takers(s)) <= 1
    /\ \A s \in Sockets : Deregistered(s) => (s \notin sessions /\ Cardinality(Takers(s)) = 1)
    /\ \A s \in Sockets : (srvOpen[s] # "none" /\ ~Deregistered(s)) => s \in sessions
    /\ \A t \in CbCalls : cb[t].pc \in {"idle", "entered", "removed", "done"}

\* both callbacks ran to the end for one session while another stays registered
C10_Witness ==
    \E s, o \in Sockets :
        /\ s # o /\ o \in sessions
        /\ \E t, u \in CbCalls :
               /\ t # u /\ cb[t].sid = s /\ cb[u].sid = s
               /\ cb[t].kind # cb[u].kind
               /\ cb[t].pc = "done" /\ cb[u].pc = "done"

\* ---- C11 ---------------------------------------------------------------
Current(w) == wsOf[w]
CurrentOpen(w) == Current(w) # Null /\ readyState[Current(w)] = "OPEN"

Sent(frame) ==
    /\ CurrentOpen(TheWrapper)
    /\ toServer' = [toServer EXCEPT ![Current(TheWrapper)] = Append(@, frame)]

ClosedOrClosing(st) == st \in {"CLOSING", "CLOSED"}

\* C12: disconnect() on an Open socket closes it at once; disconnect() with no
\* socket, or with a socket already closing or closed, changes no socket; and the
\* close that disconnect() deferred for a Connecting socket, when it runs, leaves
\* that socket closing or closed.
C12_DisconnectCloses ==
    [][/\ (ev' = "disconnect" /\ CurrentOpen(TheWrapper)) =>
              ClosedOrClosing(readyState'[Current(TheWrapper)])
       /\ (ev' = "disconnect" /\ (Current(TheWrapper) = Null
                                   \/ ClosedOrClosing(readyState[Current(TheWrapper)]))) =>
              UNCHANGED <<readyState, timers>>
       /\ (ev = "disconnect" /\ ev' = "TimerFires" /\ Current(TheWrapper) # Null) =>
              ClosedOrClosing(readyState'[Current(TheWrapper)])]_vars

\* ---- C13 ---------------------------------------------------------------
Opens(s)  == readyState[s] = "CONNECTING" /\ readyState'[s] = "OPEN"
Ends(s)   == readyState[s] \in {"CONNECTING", "OPEN", "CLOSING"} /\ readyState'[s] = "CLOSED"

\* the owner's open callback ran in this step
OpenCallback == stats'.banners = stats.banners + 1

\* a callback of the owner ran in this step: the only ones the wrapper has change
\* the owner's state
OwnerCalledBack == uiVars' # uiVars

\* C13: onConnected runs in the step in which a connection opens and in no other
\* step, and the step in which a connection ends (reaches Closed) delivers a
\* terminal callback to the owner.
C13_OpenOnceTerminalOnce ==
    [][/\ (\E s \in Sockets : Opens(s)) <=> OpenCallback
       /\ stats'.banners \in {stats.banners, stats.banners + 1}
       /\ \A s \in Sockets : Ends(s) => OwnerCalledBack]_vars

\* ---- C14 ---------------------------------------------------------------
\* the socket of the terminal's wrapper
OfTerminal(s) == wsRef # Null /\ owner[s] = wsRef

\* C14: the step in which the terminal's connection ends (transport closure or
\* error, from Connecting, Connected or Executing) leaves the terminal neither
\* connected nor executing, with submit rejected.
C14_TransportEndDisconnects ==
    [][\A s \in Sockets :
          (Ends(s) /\ OfTerminal(s)) =>
              (~isConnected' /\ ~isExecuting' /\ Rejected')]_vars

\* ---- C15 ---------------------------------------------------------------
\* C15: whenever the terminal is Executing it is eventually not Executing again,
\* under fair delivery of transport events and a capability that ends every run.
C15_ExecutingEnds == isExecuting ~> ~isExecuting

\* ---- C16 ---------------------------------------------------------------
\* what Ctrl-C does when the terminal is Executing, with the kind of the ^C line
Interrupted(kind) ==
    /\ output' = Append(output, Line(kind, TxtCtrlC))
    /\ ~isExecuting' /\ isConnected'
    /\ UNCHANGED <<input, history, historyIndex, currentDir, compVars, sockVars, wireVars, srvVars>>

InputCleared ==
    /\ input' = <<>>
    /\ UNCHANGED <<output, isExecuting, isConnected, history, historyIndex, currentDir,
                   compVars, sockVars, wireVars, srvVars>>

\* C16 (as claimed): Ctrl-C while Executing appends one info-kind line `^C` and
\* returns to Connected in the same step, no message sent or awaited; while not
\* Executing it only clears the input buffer.
C16_InterruptInfoLine ==
    [][ev' = "CtrlC" => IF isExecuting THEN Interrupted("info") ELSE InputCleared]_vars

\* C16 (amended): the same, the `^C` line being of kind stderr.
C16_InterruptStderrLine ==
    [][ev' = "CtrlC" => IF isExecuting THEN Interrupted("stderr") ELSE InputCleared]_vars

\* Ctrl-C has ended Executing while the exec frame is still on its way to the bridge
C16_Witness ==
    /\ ev = "CtrlC" /\ ~isExecuting /\ isConnected
    /\ output # <<>> /\ output[Len(output)] = Line("stderr", TxtCtrlC)
    /\ \E s \in Sockets : toServer[s] # <<>>

\* ---- C17 ---------------------------------------------------------------
\* the run of channel s completes in this step, the channel being open
Completed(s) ==
    exec[s].state = "running" /\ exec'[s].state = "idle" /\ srvOpen[s] = "open"

\* C17: when a run completes, the bridge sends one `exit` message whose exitCode
\* is the exit status the capability reported for the run.
C17_ExitCodeRelayed ==
    [][\A s \in Sockets :
          Completed(s) =>
              toClient'[s] = Append(toClient[s], Msg("exit", <<>>, exec[s].status))]_vars

\* ---- C18 ---------------------------------------------------------------
\* the messages the step puts on channel s
Appended(s) == SubSeq(toClient'[s], Len(toClient[s]) + 1, Len(toClient'[s]))

\* the capability's error callback fires for the run of channel s
ErrorCallback(s) == ev' = "CapError" /\ exec'[s] # exec[s]
\* starting the run of channel s throws
StartThrows(s)   == ev' = "getSandboxThrows" /\ toServer'[s] # toServer[s]

\* a failure on the open channel s is reported by a message of type `type` that
\* carries the reason, and the channel stays as open and as registered as it was
FailureRelay(type) ==
    \A s \in Sockets :
        /\ (ErrorCallback(s) /\ srvOpen[s] = "open") =>
               /\ Appended(s) = <<Msg(type, TxtCapError, 0)>>
               /\ UNCHANGED <<srvOpen, sessions>>
        /\ (StartThrows(s) /\ srvOpen[s] = "open") =>
               /\ Appended(s) # <<>>
               /\ Appended(s)[1] = Msg(type, TxtErrorPfx \o TxtThrown, 0)
               /\ UNCHANGED <<srvOpen, sessions>>

InSend(s) == {t \in CbCalls : cb[t].pc = "sending" /\ cb[t].sid = s}

Handled(s) == srvOpen[s] # "none" /\ s \notin sessions

\* C20: once the bridge has handled close or transport error for a channel, no
\* step puts a message on that channel.
C20_NoDeliveryAfterClose ==
    [][\A s \in Sockets : Handled(s) => Len(toClient'[s]) <= Len(toClient[s])]_vars

\* ---- C21 ---------------------------------------------------------------
\* the handler takes a malformed frame from channel s in this step
TakesMalformed(s) ==
    /\ ev' = "handleTextMessageCatch"
    /\ toServer'[s] # toServer[s]

\* no execution is started and the channel stays open and registered
NothingStarted == UNCHANGED <<exec, srvOpen, sessions>>

\* C21 (as claimed): a malformed inbound frame is dropped: no message is sent to
\* the client, no execution is started, the channel stays open and registered.
C21_MalformedDropped ==
    [][\A s \in Sockets :
          TakesMalformed(s) => (NothingStarted /\ UNCHANGED toClient)]_vars

\* C21 (amended): a malformed inbound frame starts no execution and leaves the
\* channel open and registered, and the server answers it with one `error`
\* message that carries the message of the exception.
C21_MalformedAnswered ==
    [][\A s \in Sockets :
          TakesMalformed(s) =>
              /\ NothingStarted
              /\ Appended(s) = <<Msg("error",
                                     IF Head(toServer[s]) = NotJsonFrame
                                     THEN TxtNotJson ELSE TxtNoCommand, 0)>>]_vars

\* the answer to an exec frame without `command` is on its way, the channel open,
\* registered and idle
C21_Witness ==
    /\ ev = "handleTextMessageCatch"
    /\ \E s \in Sockets :
           /\ s \in sessions /\ srvOpen[s] = "open" /\ exec[s].state = "idle"
           /\ toClient[s] # <<>>
           /\ toClient[s][Len(toClient[s])] = Msg("error", TxtNoCommand, 0)

\* ---- C22 ---------------------------------------------------------------
\* C22: once the execution of an interactive session has completed or failed,
\* its id is absent from activeSessions (and so never present again), for every
\* interleaving of the execution thread with the completion / error callbacks.
C22_AbsentAfterEnd ==
    \A id \in SessionIds : RunEnded(id) => id \notin activeSessions

\* ---- C23 ---------------------------------------------------------------
\* the terminal handles the message at the head of channel s in this step, and
\* that message is an exit or an error message
TakesEnd(s) ==
    /\ toClient[s] # <<>> /\ toClient'[s] = Tail(toClient[s])
    /\ Head(toClient[s]).type \in {"exit", "error"}

RECURSIVE CountType(_, _)
CountType(q, type) ==
    IF q = <<>> THEN 0
    ELSE (IF Head(q).type = type THEN 1 ELSE 0) + CountType(Tail(q), type)

\* commands of channel s that are newer than the one whose exit is at the head
\* of the channel: their exit is behind it, or they run, or their frame is still
\* on its way.  The command the terminal is Executing is the newest one.
NewerCommands(s) ==
    CountType(toServer[s], "exec")
        + (IF exec[s].state = "running" THEN 1 ELSE 0)
        + CountType(Tail(toClient[s]), "exit")

\* C23: an exit or error message ends the Executing state only if it was produced
\* by the command the terminal is executing: a message of an earlier command
\* (one interrupted with Ctrl-C, whose exit arrives later) never ends it.
C23_OnlyOwnEndEndsExecuting ==
    [][\A s \in Sockets :
          (isExecuting /\ ~isExecuting' /\ TakesEnd(s)) => NewerCommands(s) = 0]_vars

\* ---- C24 ---------------------------------------------------------------
\* the terminal handles the message at the head of channel s in this step, and
\* that message is a chunk of the given kind
TakesChunk(s, kind) ==
    /\ toClient[s] # <<>> /\ toClient'[s] = Tail(toClient[s])
    /\ Head(toClient[s]).type = kind

\* C24: a stderr chunk appends one stderr-kind line and ends Executing, whether
\* or not an exit message has arrived; a stdout chunk appends one stdout-kind
\* line and leaves the Executing / Connected state as it is.
C24_ChunkEffects ==
    [][\A s \in Sockets :
          /\ TakesChunk(s, "stderr") =>
                 /\ output' = Append(output, Line("stderr", Head(toClient[s]).data))
                 /\ ~isExecuting'
                 /\ UNCHANGED isConnected
          /\ TakesChunk(s, "stdout") =>
                 /\ output' = Append(output, Line("stdout", Head(toClient[s]).data))
                 /\ UNCHANGED <<isExecuting, isConnected>>]_vars

\* the only command submitted still runs at the server, no exit message exists and
\* no interrupt was made, and the stderr chunk just shown has ended Executing
C24_Witness ==
    /\ stats.submits = 1 /\ ~isExecuting /\ isConnected
    /\ output[Len(output)] = Line("stderr", ChunkText(1))
    /\ \A i \in 1..Len(output) : output[i].text # TxtCtrlC
    /\ \E s \in Sockets :
           /\ exec[s].state = "running"
           /\ CountType(toClient[s], "exit") = 0

\* ---- C25 ---------------------------------------------------------------
\* the handler of the channel-open of s runs in this step
OpensChannel(s) == srvOpen[s] = "none" /\ srvOpen'[s] = "open"

\* a `connected` message is written to channel s in this step
Greets(s) ==
    /\ Len(toClient'[s]) > Len(toClient[s])
    /\ \E i \in 1..Len(Appended(s)) : Appended(s)[i].type = "connected"

\* C25: a session id is in the registry exactly from the handling of its
\* channel-open until the first handling of its close or transport error (it
\* enters at the open and only there, it leaves at a close or a transport error
\* and only there, a closed channel is not registered), and the one `connected`
\* message of a channel is sent at its open.
C25_RegistryMembership ==
    /\ [](\A s \in Sockets : s \in sessions => srvOpen[s] = "open")
    /\ [][\A s \in Sockets :
             /\ OpensChannel(s) =>
                    /\ s \in sessions'
                    /\ Appended(s) = <<Msg("connected", <<>>, 0)>>
             /\ (s \in sessions' /\ s \notin sessions) => OpensChannel(s)
             /\ Greets(s) => OpensChannel(s)
             /\ (s \in sessions /\ s \notin sessions') =>
                    ev' \in {"afterConnectionClosed", "handleTransportError"}
             /\ (srvOpen[s] = "open" /\ srvOpen'[s] = "closed") => s \notin sessions'
             /\ ev' = "handleTransportError" =>
                    /\ sessions' \subseteq sessions
                    /\ Cardinality(sessions') = Cardinality(sessions) - 1]_vars

\* a transport error of an open channel was just handled: the channel has had its
\* `connected` message and is no longer registered
C25_Witness ==
    /\ ev = "handleTransportError"
    /\ isConnected
    /\ \E s \in Sockets : srvOpen[s] = "open" /\ s \notin sessions

\* ---- C26 ---------------------------------------------------------------
\* A deferred close that runs directly after a connect() was scheduled by a
\* disconnect() made before that connect() (connect() disconnects before it
\* creates its socket), so the socket that connect() created is not the socket
\* it was scheduled for.
\* C26: the deferred close of disconnect() acts only on the socket it was
\* scheduled for: it never closes, and never drops the wrapper's reference to, a
\* socket created by a later connect().
C26_DeferredCloseOwnSocket ==
    [][(ev = "connect" /\ ev' = "TimerFires") => UNCHANGED <<wsOf, readyState>>]_vars

\* ---- C27 ---------------------------------------------------------------
\* disconnect() was the last operation and the wrapper still refers to s: the
\* call was made for s (disconnect() never makes the wrapper refer to a socket)
JustDisconnected(s) == ev = "disconnect" /\ wsOf[TheWrapper] = s

\* an event of socket s is handled in this step: it opens, a message of it is
\* taken, or it fails
SocketEvent(s) ==
    \/ readyState[s] = "CONNECTING" /\ readyState'[s] = "OPEN"
    \/ toClient[s] # <<>> /\ toClient'[s] = Tail(toClient[s])
    \/ ev' = "onerror" /\ readyState'[s] # readyState[s]

\* C27: once disconnect() has been called for a socket, no later event of that
\* socket invokes the terminal's callbacks: the terminal is not marked Connected
\* and no OutputLine is appended.
C27_NoCallbackAfterDisconnect ==
    [][\A s \in Sockets :
          (JustDisconnected(s) /\ SocketEvent(s)) => UNCHANGED <<isConnected, output>>]_vars

\* ---- C28 ---------------------------------------------------------------
\* an exec frame is written to an Open channel in this step
WrittenToOpen ==
    \E s \in Sockets :
        /\ readyState[s] = "OPEN"
        /\ Len(toServer'[s]) = Len(toServer[s]) + 1
        /\ toServer'[s][Len(toServer'[s])].type = "exec"

\* C28: the terminal enters Executing only in a step that writes the exec frame
\* of the submitted command to an Open channel; a submit whose frame the
\* transport drops does not enter Executing.
C28_ExecutingOnlyIfWritten ==
    [][(~isExecuting /\ isExecuting') => WrittenToOpen]_vars

\* ---- C29 ---------------------------------------------------------------
\* the echo line of the last submit, `<prompt> $ <command>`, when it is the last
\* line of the output
LastEcho == output[Len(output)].text

CdSubEcho == TxtPromptSep \o TxtCdSub

\* the last submit was `cd sub`; nothing was appended since
AfterCdSub ==
    /\ output # <<>> /\ output[Len(output)].type = "input"
    /\ Len(LastEcho) > Len(CdSubEcho)
    /\ SubSeq(LastEcho, Len(LastEcho) - Len(CdSubEcho) + 1, Len(LastEcho)) = CdSubEcho

\* the prompt that `cd sub` was submitted at
PromptBefore == SubSeq(LastEcho, 1, Len(LastEcho) - Len(CdSubEcho))

\* C29: for every reachable prompt p, `~` and the prompts rooted at `~` included,
\* submitting `cd sub` and then `cd ..` leaves the prompt equal to p.
C29_CdRoundTrip ==
    [][(ev' = "Enter" /\ Accepted /\ Trim(input) = TxtCdUp /\ AfterCdSub)
          => currentDir' = PromptBefore]_vars

\* ---- C30 ---------------------------------------------------------------
\* C30: in every state reachable by typing, submit, Up, Down, Ctrl-C and Ctrl-L
\* the history cursor is within -1 .. len(history) - 1, and every accepted submit
\* resets it to -1.
C30_HistoryCursor ==
    /\ [](historyIndex >= -1 /\ historyIndex <= Len(history) - 1)
    /\ [][(ev' = "Enter" /\ Accepted) => historyIndex' = -1]_vars

\* the oldest of two entries was recalled with Up and submitted again: it is now
\* the newest entry and the cursor is back at -1
C30_Witness ==
    /\ ev = "Enter"
    /\ stats.submits = 3
    /\ history = <<TxtB, TxtA>>
    /\ historyIndex = -1 /\ input = <<>>

====
